---- MODULE Spec2Model ----
(***************************************************************************)
(* A model of bot.py: the polling task check_new_events (initialisation,   *)
(* steady-state ticks, notification fan-out), the command handlers that    *)
(* mutate the subscriber registry, the four JSON files behind Storage and  *)
(* the keyword matcher.                                                    *)
(*                                                                         *)
(* The program runs on one asyncio loop: code between two awaits is one    *)
(* atomic step.  A handler is therefore one action; the polling task is    *)
(* cut at its awaits (the fetch, send_message, the sleeps).                *)
(***************************************************************************)
EXTENDS Integers, Sequences, FiniteSets, TLC

\* ------------------------------------------------------------------ bounds
MaxBatch == 2     \* longest list a fetch returns in the model
MaxFaults == 1    \* storage writes that fail per run
MaxKeywordChars == 4   \* characters of a keyword list, separators included
MaxCrashes == 1   \* restarts of the process per run

\* --------------------------------------------------------- program constants
WarmThreshold == 10000     \* "if volume > 10000" of the warm initialisation
TickThreshold == 50000     \* "if volume > 50000" of the steady-state tick

Users == {1, 2}

\* ------------------------------------------------------------------ strings
\* A Python str is a sequence of one-character strings.
LowerChar(c) ==
    CASE c = "B" -> "b" [] c = "T" -> "t" [] c = "C" -> "c"
      [] c = "U" -> "u" [] c = "P" -> "p" [] c = "L" -> "l"
      [] c = "E" -> "e" [] c = "A" -> "a" [] c = "R" -> "r"
      [] OTHER -> c

Lower(s) == [i \in 1..Len(s) |-> LowerChar(s[i])]

IsSpace(c) == c = " "

RECURSIVE LStrip(_)
LStrip(s) == IF s # <<>> /\ IsSpace(s[1]) THEN LStrip(Tail(s)) ELSE s

RECURSIVE RStrip(_)
RStrip(s) ==
    IF s # <<>> /\ IsSpace(s[Len(s)]) THEN RStrip(SubSeq(s, 1, Len(s) - 1)) ELSE s

Strip(s) == LStrip(RStrip(s))

\* p in s
Contains(s, p) ==
    \E i \in 0..(Len(s) - Len(p)) : SubSeq(s, i + 1, i + Len(p)) = p

StartsWith(s, c) == s # <<>> /\ s[1] = c
EndsWith(s, c) == s # <<>> /\ s[Len(s)] = c

\* s.split(',')
RECURSIVE SplitComma(_, _, _)
SplitComma(s, i, cur) ==
    IF i > Len(s) THEN <<cur>>
    ELSE IF s[i] = "," THEN <<cur>> \o SplitComma(s, i + 1, <<>>)
    ELSE SplitComma(s, i + 1, Append(cur, s[i]))

\* ' '.join(list)
RECURSIVE JoinSpace(_)
JoinSpace(l) ==
    IF l = <<>> THEN <<>>
    ELSE IF Len(l) = 1 THEN l[1]
    ELSE l[1] \o <<" ">> \o JoinSpace(Tail(l))

SelectNonEmpty(l) == SelectSeq(l, LAMBDA k : k # <<>>)

\* ---------------------------------------------------------- remote events
\* The forms the 'id' field of a fetched event takes: "absent" (key missing),
\* "null" (JSON null), "i0" (the number 0), "i1" (the number 1), "s1" (the
\* string "1"), "s2" (the string "2"), "s3" (the string "3").
\* The forms of the 'volume' field: key missing, JSON null, a number, a
\* string float() rejects.
Vol(k, n) == [k |-> k, n |-> n]
VolAbsent == Vol("absent", 0)
VolNull == Vol("null", 0)
VolBad == Vol("bad", 0)

\* event.get('id') is truthy (line 783): not None (missing or null), not 0.
IdTruthy(id) == id \notin {"absent", "null", "i0"}

\* str(event.get('id')) on a truthy id (line 784)
StrId(id) ==
    CASE id = "i1" -> "1" [] id = "s1" -> "1" [] id = "s2" -> "2"
      [] id = "s3" -> "3" [] id = "i0" -> "0" [] id = "null" -> "None" [] OTHER -> ""

\* str(event.get('id', '')) (lines 794, 816): a missing key gives '', a null
\* gives 'None', a number its decimal form.
StrIdDefault(id) == IF id = "absent" THEN "" ELSE StrId(id)

\* float(event.get('volume', 0) or 0) (lines 796, 821) raises on a string
\* that is no number.
VolumeRaises(v) == v.k = "bad"
VolumeFloat(v) == IF v.k = "num" THEN v.n ELSE 0

\* Title and market questions of the remote event behind each id.
Title(id) ==
    IF id \in {"i1", "s1"} THEN <<"B", "T", "C">>
    ELSE IF id = "s2" THEN <<"C", "u", "p">>
    ELSE IF id = "s3" THEN <<"'", "b", " ", "\"", "B", "\"">>
    ELSE <<"E", "a", "r", "l">>

Questions(id) ==
    IF id \in {"i1", "s1"} THEN << <<"U", "p">> >>
    ELSE IF id \in {"s2", "s3"} THEN <<>>
    ELSE << <<"C", "u", "p">>, <<"B", "T", "C">> >>

\* Lists of at most n events drawn from f.
SeqsUpTo(f, n) == UNION {[1..k -> f] : k \in 0..n}

\* --------------------------------------------------------- keyword matcher
\* keyword[1:-1]
StripQuotes(k) == IF Len(k) < 2 THEN <<>> ELSE SubSeq(k, 2, Len(k) - 1)

IsPhrase(k) ==
    \/ StartsWith(k, "\"") /\ EndsWith(k, "\"")
    \/ StartsWith(k, "'") /\ EndsWith(k, "'")

Searchable(event) ==
    Lower(Title(event.id)) \o <<" ">>
      \o JoinSpace([i \in 1..Len(Questions(event.id)) |->
                        Lower(Questions(event.id)[i])])

KeywordHits(keyword, searchable) ==
    LET k == Strip(keyword) IN
    /\ k # <<>>
    /\ IF IsPhrase(k) THEN Contains(searchable, Lower(StripQuotes(k)))
       ELSE Contains(searchable, Lower(k))

matches_keywords(event, keywords) ==
    \/ keywords = <<>>
    \/ \E i \in 1..Len(keywords) : KeywordHits(keywords[i], Searchable(event))

\* ------------------------------------------------------------------- state
VARIABLES
    subscribed_users,   \* global subscribed_users: set of user ids
    paused_users,       \* global paused_users
    user_keywords,      \* global user_keywords: user id -> list of keywords
    seen_events,        \* global seen_events: set of id strings
    users_file,         \* users.json
    paused_file,        \* paused_users.json
    keywords_file,      \* keywords.json
    seen_file,          \* seen_events.json
    pc,                 \* where the polling task is suspended
    new_events,         \* local new_events of check_new_events
    ev_idx,             \* index in new_events of the event being fanned out
    snapshot,           \* list(subscribed_users) taken for that event
    usr_idx,            \* index in snapshot of the user being notified
    feed,               \* the events the remote API has in this run
    probe,              \* one call of matches_keywords: arguments and result
    context,            \* one call of fetch_market_context: attempts and result
    store,              \* one resource of Storage: value saved, file, value loaded
    faults,             \* storage writes that failed
    last_batch,         \* the list the latest fetch returned
    initial_ids,        \* ids (as the tick reads them) of the initial fetch
    init_mode,          \* "none", "cold", "warm": which initialisation ran
    last_fetch,         \* "none", "init", "tick": what made the latest fetch
    aborted,            \* the latest tick ended in "except Exception" (l. 865)
    last_save,          \* outcome of save_seen_events in the latest tick
    repeated,           \* the latest tick fetched what the tick before it fetched
    last_send,          \* how the latest finished send_message of the tick ended
    paused_at_start,    \* paused_users when the running fan-out began
    sent,               \* <<user, id>> of the send_message calls of the running fan-out
    skipped,            \* <<user, id>> of every delivery skipped for a pause
    request,            \* the latest command message a handler was given
    notified,           \* the notifications delivered since the first start
    fetched             \* what the latest request for the market list came to

registry == <<subscribed_users, paused_users, user_keywords>>
registryFiles == <<users_file, paused_file, keywords_file>>
poller == <<seen_events, seen_file, pc, new_events, ev_idx, snapshot, usr_idx,
            paused_at_start, sent, skipped>>
\* What an observer of the polling task notes down; the program reads none of it.
watched == <<last_batch, initial_ids, init_mode, last_fetch, aborted, last_save,
             repeated, last_send>>
observed == <<watched, request, fetched, notified>>
\* What the program is given: the remote events, and one call of the matcher.
environment == <<feed, probe, context, store>>
vars == <<registry, registryFiles, poller, observed, environment, faults>>

\* ----------------------------------------------------------------- storage
\* A file holds a JSON document, or bytes json.load rejects.
File(data) == [ok |-> TRUE, data |-> data]
Corrupt(empty) == [ok |-> FALSE, data |-> empty]

\* Storage.load_*: the document, or the empty collection when the file is
\* missing or json.load raises.
Load(file, empty) == IF file.ok THEN file.data ELSE empty

NoKeywords == [u \in {} |-> <<>>]

\* How a Storage.save_* call ends: the document is written; open() raises and
\* the file is left as it was; the write raises after open(..., 'w') has
\* truncated the file.  The exception is logged and swallowed.
SaveOutcomes ==
    {"ok"} \cup (IF faults < MaxFaults THEN {"open_failed", "write_failed"} ELSE {})

\* A faulty save, which reports success and writes nothing.
WrittenNothing(file, data, empty, how) == file
Written(file, data, empty, how) ==
    CASE how = "ok" -> File(data)
      [] how = "open_failed" -> file
      [] OTHER -> Corrupt(empty)

FaultsAfter(how) == IF how = "ok" THEN faults ELSE faults + 1

\* -------------------------------------------------------- dedup engine
\* Faulty variants of the add: one forgets the other ids, one adds nothing.
SeenReplace(seen, id) == {id}
SeenKeep(seen, id) == seen
\* seen_events.add(event_id) (lines 784, 799, 825, 830)
SeenAdd(seen, id) == seen \cup {id}

\* Lines 781-784: the cold initialisation loop.
RECURSIVE ColdLoop(_, _, _)
ColdLoop(initial, k, seen) ==
    IF k > Len(initial) THEN seen
    ELSE IF IdTruthy(initial[k].id)
         THEN ColdLoop(initial, k + 1, SeenAdd(seen, StrId(initial[k].id)))
         ELSE ColdLoop(initial, k + 1, seen)

IsPreexisting(volume) == volume > WarmThreshold
IsHighVolume(volume) == volume > TickThreshold

\* Lines 793-801: the warm initialisation loop.  float() raising ends the
\* loop (and, uncaught, the task) with the ids added so far.
RECURSIVE WarmLoop(_, _, _, _)
WarmLoop(initial, k, seen, added) ==
    IF k > Len(initial) THEN [seen |-> seen, added |-> added, raised |-> FALSE]
    ELSE LET event_id == StrIdDefault(initial[k].id) IN
         IF event_id # "" /\ event_id \notin seen
         THEN IF VolumeRaises(initial[k].volume)
              THEN [seen |-> seen, added |-> added, raised |-> TRUE]
              ELSE IF IsPreexisting(VolumeFloat(initial[k].volume))
                   THEN WarmLoop(initial, k + 1, SeenAdd(seen, event_id), added + 1)
                   ELSE WarmLoop(initial, k + 1, seen, added)
         ELSE WarmLoop(initial, k + 1, seen, added)

\* Lines 815-834: the classification loop of a tick.
\* A faulty loop, which puts each new event in front of the list.
RECURSIVE TickLoopNewestFirst(_, _, _, _)
TickLoopNewestFirst(recent, k, seen, new) ==
    IF k > Len(recent) THEN [seen |-> seen, new |-> new, raised |-> FALSE]
    ELSE LET event_id == StrIdDefault(recent[k].id) IN
         IF event_id # "" /\ event_id \notin seen
         THEN IF VolumeRaises(recent[k].volume)
              THEN [seen |-> seen, new |-> new, raised |-> TRUE]
              ELSE IF IsHighVolume(VolumeFloat(recent[k].volume))
                   THEN TickLoopNewestFirst(recent, k + 1,
                                            SeenAdd(seen, event_id), new)
                   ELSE TickLoopNewestFirst(recent, k + 1,
                                            SeenAdd(seen, event_id),
                                            <<recent[k]>> \o new)
         ELSE TickLoopNewestFirst(recent, k + 1, seen, new)
RECURSIVE TickLoop(_, _, _, _)
TickLoop(recent, k, seen, new) ==
    IF k > Len(recent) THEN [seen |-> seen, new |-> new, raised |-> FALSE]
    ELSE LET event_id == StrIdDefault(recent[k].id) IN
         IF event_id # "" /\ event_id \notin seen
         THEN IF VolumeRaises(recent[k].volume)
              THEN [seen |-> seen, new |-> new, raised |-> TRUE]
              ELSE IF IsHighVolume(VolumeFloat(recent[k].volume))
                   THEN TickLoop(recent, k + 1, SeenAdd(seen, event_id), new)
                   ELSE TickLoop(recent, k + 1, SeenAdd(seen, event_id),
                                 Append(new, recent[k]))
         ELSE TickLoop(recent, k + 1, seen, new)

\* One response of the remote API: at most MaxBatch events of the feed, an
\* event listed twice having the same content both times.  A failed fetch
\* (non-200, timeout, network error) returns [] (lines 304-309).
Responses ==
    {b \in SeqsUpTo(feed, MaxBatch) :
        \A i, j \in 1..Len(b) :
            (StrIdDefault(b[i].id) # ""
               /\ StrIdDefault(b[i].id) = StrIdDefault(b[j].id)) => b[i] = b[j]}

IdsOf(batch) == {StrIdDefault(batch[k].id) : k \in 1..Len(batch)} \ {""}

\* What a request for the market list comes to: a response with a status and
\* a JSON body (a list of events or something else), or an exception (the
\* timeout of 15 s, a network error, a body that is no JSON).
FetchReply(kind, status, is_list, events) ==
    [kind |-> kind, status |-> status, is_list |-> is_list, events |-> events]
NoFetch == FetchReply("none", 0, FALSE, <<>>)

FetchReplies ==
    {FetchReply("status", st, TRUE, b) : st \in {200, 404, 500}, b \in Responses}
      \cup {FetchReply("status", st, FALSE, <<>>) : st \in {200, 404, 500}}
      \cup {FetchReply(kind, 0, FALSE, <<>>) : kind \in {"timeout", "network"}}

\* A faulty fetch, which takes the body of any response for the list.
fetch_any_status(r) == IF r.is_list THEN r.events ELSE <<>>
\* fetch_recent_events (lines 283-309): the list of a 200 response, [] in
\* every other case; one request, no retry.
fetch_recent_events(r) ==
    IF r.kind = "status" /\ r.status = 200 /\ r.is_list THEN r.events ELSE <<>>

\* ------------------------------------------------------------- fan-out
\* list(subscribed_users): the iteration order of the set, modelled as
\* ascending user id (the users of the model are interchangeable).
\* A faulty snapshot, which lists every user twice.
RECURSIVE OrderRevisit(_)
OrderRevisit(S) ==
    IF S = {} THEN <<>>
    ELSE LET m == CHOOSE x \in S : \A y \in S : x >= y
         IN <<m>> \o OrderRevisit(S \ {m}) \o <<m>>
RECURSIVE Order(_)
Order(S) ==
    IF S = {} THEN <<>>
    ELSE LET m == CHOOSE x \in S : \A y \in S : x <= y
         IN <<m>> \o Order(S \ {m})

\* A faulty pause test, which finds nobody paused.
NeverPaused(user_id) == FALSE
\* Line 850
IsPaused(user_id) == user_id \in paused_users

\* Line 854: user_keywords.get(user_id, [])
KeywordsOf(user_id) ==
    IF user_id \in DOMAIN user_keywords THEN user_keywords[user_id] ELSE <<>>

\* A faulty filter, which lets every event through.
NeverFilteredOut(user_id, event) == FALSE
\* Line 855
IsFilteredOut(user_id, event) ==
    KeywordsOf(user_id) # <<>> /\ ~matches_keywords(event, KeywordsOf(user_id))

Idle(skip) == [send |-> FALSE, i |-> 0, snap |-> <<>>, j |-> 0, skip |-> skip]

\* Lines 843-861 from one await to the next: starting with user j of the
\* snapshot of event i, skip paused and filtered-out users, move on to the
\* next event (with a fresh snapshot) when the snapshot is exhausted, and stop
\* at the first send_message or at the end of new_events.
RECURSIVE Scan(_, _, _, _, _)
Scan(evs, i, snap, j, skip) ==
    IF i > Len(evs) THEN Idle(skip)
    ELSE IF j > Len(snap) THEN Scan(evs, i + 1, Order(subscribed_users), 1, skip)
    ELSE IF IsPaused(snap[j])
         THEN Scan(evs, i, snap, j + 1,
                   skip \cup {<<snap[j], StrIdDefault(evs[i].id)>>})
    ELSE IF IsFilteredOut(snap[j], evs[i]) THEN Scan(evs, i, snap, j + 1, skip)
    ELSE [send |-> TRUE, i |-> i, snap |-> snap, j |-> j, skip |-> skip]

\* The poller's fan-out variables after a scan.
FanOut(sc, evs, before) ==
    /\ pc' = IF sc.send THEN "sending" ELSE "sleep"
    /\ ev_idx' = sc.i
    /\ snapshot' = sc.snap
    /\ usr_idx' = sc.j
    /\ skipped' = skipped \cup sc.skip
    /\ sent' = IF sc.send
               THEN before \cup {<<sc.snap[sc.j], StrIdDefault(evs[sc.i].id)>>}
               ELSE {}

\* ------------------------------------------------------ command handlers
\* A faulty /start, which takes the user out of the paused set.
cmd_start_resumes(user_id) ==
    \E how \in SaveOutcomes :
        /\ subscribed_users' = subscribed_users \cup {user_id}
        /\ users_file' = Written(users_file, subscribed_users', {}, how)
        /\ paused_users' = paused_users \ {user_id}
        /\ faults' = FaultsAfter(how)
        /\ UNCHANGED <<user_keywords, paused_file, keywords_file,
                       poller, environment>>
\* /start (lines 530-550)
cmd_start(user_id) ==
    \E how \in SaveOutcomes :
        /\ subscribed_users' = subscribed_users \cup {user_id}
        /\ users_file' = Written(users_file, subscribed_users', {}, how)
        /\ faults' = FaultsAfter(how)
        /\ UNCHANGED <<paused_users, user_keywords, paused_file, keywords_file,
                       poller, environment>>

\* /pause (lines 737-752); an already paused user gets a reply only.
cmd_pause(user_id) ==
    /\ IF user_id \in paused_users
       THEN UNCHANGED <<paused_users, paused_file, faults>>
       ELSE \E how \in SaveOutcomes :
               /\ paused_users' = paused_users \cup {user_id}
               /\ paused_file' = Written(paused_file, paused_users', {}, how)
               /\ faults' = FaultsAfter(how)
    /\ UNCHANGED <<subscribed_users, user_keywords, users_file, keywords_file,
                   poller, environment>>

\* /resume (lines 754-772); a user who is not paused gets a reply only.
cmd_resume(user_id) ==
    /\ IF user_id \notin paused_users
       THEN UNCHANGED <<paused_users, paused_file, faults>>
       ELSE \E how \in SaveOutcomes :
               /\ paused_users' = paused_users \ {user_id}
               /\ paused_file' = Written(paused_file, paused_users', {}, how)
               /\ faults' = FaultsAfter(how)
    /\ UNCHANGED <<subscribed_users, user_keywords, users_file, keywords_file,
                   poller, environment>>

\* /help (lines 636-656): a reply only.
cmd_help(user_id) ==
    UNCHANGED <<registry, registryFiles, faults, poller, environment>>

\* The texts users send after "/keywords" while the polling task runs.
KeywordInputs ==
    { <<"C", "L", "E", "A", "R">>,
      <<"B", "T", "C", " ">>,
      <<",", " ">> }

\* A faulty parse, which keeps the empty pieces.
ParseKeepsEmpty(keyword_input) ==
    LET pieces == SplitComma(keyword_input, 1, <<>>)
    IN [i \in 1..Len(pieces) |-> Strip(pieces[i])]
\* Lines 717-719: split on commas, strip every piece, drop the empty ones.
ParseKeywords(keyword_input) ==
    LET pieces == SplitComma(keyword_input, 1, <<>>)
    IN SelectNonEmpty([i \in 1..Len(pieces) |-> Strip(pieces[i])])

IsClear(keyword_input) == Lower(keyword_input) = <<"c", "l", "e", "a", "r">>

\* Line 710: del user_keywords[user_id]
KeywordsWithout(user_id) ==
    [u \in DOMAIN user_keywords \ {user_id} |-> user_keywords[u]]

\* A faulty assignment, which appends to the list the user has.
KeywordsMerged(user_id, keywords) ==
    [u \in DOMAIN user_keywords \cup {user_id} |->
        IF u = user_id THEN KeywordsOf(user_id) \o keywords ELSE user_keywords[u]]
\* Line 726: user_keywords[user_id] = keywords
KeywordsWith(user_id, keywords) ==
    [u \in DOMAIN user_keywords \cup {user_id} |->
        IF u = user_id THEN keywords ELSE user_keywords[u]]

\* /keywords (lines 658-735); text is what follows the command in the message.
\* split(maxsplit=1) yields no second part when text is blank (line 664).
cmd_keywords(user_id, text) ==
    LET keyword_input == Strip(text)
        keywords == ParseKeywords(keyword_input)
        Saved(mapping) ==
            \E how \in SaveOutcomes :
                /\ user_keywords' = mapping
                /\ keywords_file' =
                      Written(keywords_file, mapping, NoKeywords, how)
                /\ faults' = FaultsAfter(how)
        ReplyOnly == UNCHANGED <<user_keywords, keywords_file, faults>>
    IN /\ IF keyword_input = <<>> THEN ReplyOnly
          ELSE IF IsClear(keyword_input)
               THEN IF user_id \in DOMAIN user_keywords
                    THEN Saved(KeywordsWithout(user_id))
                    ELSE ReplyOnly
          ELSE IF keywords = <<>> THEN ReplyOnly
          ELSE Saved(KeywordsWith(user_id, keywords))
       /\ UNCHANGED <<subscribed_users, paused_users, users_file, paused_file,
                      poller, environment>>

\* A URL as its pieces; the slugs are the pieces of [a-zA-Z0-9\-]+.
Slugs == {"btc-100k"}
None == "None"

\* parse_polymarket_url (lines 312-317): the slug that follows the first
\* "polymarket.com/event/" which a slug follows, or None.
parse_polymarket_url(url) ==
    LET found == {i \in 1..(Len(url) - 1) :
                     url[i] = "polymarket.com/event/" /\ url[i + 1] \in Slugs}
    IN IF found = {} THEN None
       ELSE url[(CHOOSE i \in found : \A j \in found : i <= j) + 1]

\* /deal (lines 552-634): replies only, whether the argument is missing
\* (line 556), is no event URL (line 566) or names an event that is fetched.
cmd_deal(user_id, text) ==
    /\ IF text = <<>> THEN TRUE
       ELSE IF parse_polymarket_url(text) = None THEN TRUE
       ELSE TRUE
    /\ UNCHANGED <<registry, registryFiles, faults, poller, environment>>

\* ------------------------------------------------------------ polling task
NoFanOut ==
    /\ new_events' = <<>>
    /\ ev_idx' = 0
    /\ snapshot' = <<>>
    /\ usr_idx' = 0
    /\ UNCHANGED <<paused_at_start, sent, skipped>>

\* Lines 778-786: the seen set loaded at start is empty.
InitCold(initial, how) ==
    /\ pc = "start"
    /\ seen_events = {}
    /\ seen_events' = ColdLoop(initial, 1, seen_events)
    /\ seen_file' = Written(seen_file, seen_events', {}, how)
    /\ faults' = FaultsAfter(how)
    /\ pc' = "sleep"
    /\ NoFanOut
    /\ UNCHANGED <<registry, registryFiles, environment>>

WarmResult(initial) == WarmLoop(initial, 1, seen_events, 0)

\* Line 802
WarmSaves(r) == ~r.raised /\ r.added > 0

\* Lines 787-804: the seen set loaded at start is not empty.  An exception
\* of the loop is caught nowhere and ends the task.
InitWarm(initial, how) ==
    /\ pc = "start"
    /\ seen_events # {}
    /\ \E r \in {WarmResult(initial)} :
          /\ (~WarmSaves(r) => how = "ok")
          /\ seen_events' = r.seen
          /\ seen_file' = IF WarmSaves(r) THEN Written(seen_file, r.seen, {}, how)
                          ELSE seen_file
          /\ faults' = FaultsAfter(how)
          /\ pc' = IF r.raised THEN "dead" ELSE "sleep"
    /\ NoFanOut
    /\ UNCHANGED <<registry, registryFiles, environment>>

TickResult(recent) == TickLoop(recent, 1, seen_events, <<>>)

\* Line 838 is reached (no exception) with a non-empty new_events.
TickSaves(r) == ~r.raised /\ r.new # <<>>

\* Lines 808-861 up to the first send_message: sleep, fetch, classify, save,
\* start the fan-out.  "except Exception" (line 865) ends the tick where the
\* exception was raised.
Tick(recent, how) ==
    /\ pc = "sleep"
    /\ \E r \in {TickResult(recent)} :
       \E sc \in {IF TickSaves(r) /\ subscribed_users # {}
                  THEN Scan(r.new, 1, Order(subscribed_users), 1, {})
                  ELSE Idle({})} :
          /\ (~TickSaves(r) => how = "ok")
          /\ seen_events' = r.seen
          /\ new_events' = IF r.raised THEN <<>> ELSE r.new
          /\ seen_file' = IF TickSaves(r) THEN Written(seen_file, r.seen, {}, how)
                          ELSE seen_file
          /\ faults' = FaultsAfter(how)
          /\ paused_at_start' = IF sc.send THEN paused_users ELSE {}
          /\ FanOut(sc, new_events', {})
    /\ UNCHANGED <<registry, registryFiles, environment>>

\* How the awaited send_message ends: it returns, or it raises (the user has
\* blocked the bot, the network is down).
SendOutcomes == {"delivered", "raised"}

\* A faulty loop, in which an exception of send_message ends the user loop.
NextTurnBreaks(outcome) ==
    IF outcome = "raised" THEN Len(snapshot) + 1 ELSE usr_idx + 1
\* The position in the snapshot the user loop goes on with: after the send
\* and the 0.5 s sleep (lines 860-861), or after the "except Exception" of
\* lines 862-863, the next iteration of the "for user_id" loop.
NextTurn(outcome) == usr_idx + 1

\* A faulty fan-out, which takes the list of the subscribed users anew after
\* every delivery.
AfterSendFreshList(outcome) ==
    /\ pc = "sending"
    /\ \E sc \in {Scan(new_events, ev_idx, Order(subscribed_users),
                        NextTurn(outcome), {})} :
          /\ FanOut(sc, new_events, sent)
          /\ paused_at_start' = IF sc.send THEN paused_at_start ELSE {}
    /\ UNCHANGED <<registry, registryFiles, environment, faults, seen_events, seen_file,
                   new_events>>
\* Lines 860-863 and on to the next send_message.
AfterSend(outcome) ==
    /\ pc = "sending"
    /\ \E sc \in {Scan(new_events, ev_idx, snapshot, NextTurn(outcome), {})} :
          /\ FanOut(sc, new_events, sent)
          /\ paused_at_start' = IF sc.send THEN paused_at_start ELSE {}
    /\ UNCHANGED <<registry, registryFiles, environment, faults, seen_events, seen_file,
                   new_events>>

Advance == \E outcome \in SendOutcomes : AfterSend(outcome) /\ UNCHANGED observed

\* ---------------------------------------------------------------- observer
ObserveInit(initial, mode) ==
    /\ last_batch' = initial
    /\ initial_ids' = IdsOf(initial)
    /\ init_mode' = mode
    /\ last_fetch' = "init"
    /\ UNCHANGED <<aborted, last_save, repeated, last_send, request>>

ObserveTick(recent, how) ==
    /\ last_batch' = recent
    /\ last_fetch' = "tick"
    /\ aborted' = TickResult(recent).raised
    /\ last_save' = IF new_events' # <<>> THEN how ELSE "none"
    /\ repeated' = (last_fetch = "tick" /\ recent = last_batch)
    /\ last_send' = "none"
    /\ UNCHANGED <<initial_ids, init_mode, request>>

ObserveSend(outcome) ==
    /\ last_send' = outcome
    /\ UNCHANGED <<last_batch, initial_ids, init_mode, last_fetch, aborted,
                   last_save, repeated, request>>

\* ---------------------------------------------------------- specifications
\* PolydictionsBot.__init__ (lines 513-517): the four collections are loaded
\* from their files.
Loaded ==
    /\ subscribed_users = Load(users_file, {})
    /\ seen_events = Load(seen_file, {})
    /\ user_keywords = Load(keywords_file, NoKeywords)
    /\ paused_users = Load(paused_file, {})

\* A call of the matcher: not made yet, or made with its result.
Probe(event, keywords, done, result) ==
    [event |-> event, keywords |-> keywords, done |-> done, result |-> result]
NoProbe == Probe([id |-> "s1", volume |-> VolAbsent], <<>>, FALSE, FALSE)

\* A call of fetch_market_context: the slug, where the call is ("call": about
\* to post, "backoff": in the sleep before the retry, "done": returned), the
\* argument retry, the responses of the requests made, and what it returned.
Context(slug, at, retry, attempts, result) ==
    [slug |-> slug, pc |-> at, retry |-> retry, attempts |-> attempts,
     result |-> result]
NoContext == Context("", "done", 0, <<>>, [none |-> TRUE, len |-> 0])

\* A resource of Storage: which one, the value given to save_*, how the save
\* ended, the file, where the run is ("save", "load", "done") and the value
\* load_* returned.
Store(resource, value, how, file, at, loaded) ==
    [resource |-> resource, value |-> value, how |-> how, file |-> file,
     pc |-> at, loaded |-> loaded]
NoStore == Store("none", {}, "none", [kind |-> "missing"], "done", {})

\* The notifications delivered over all runs of the process: the <<user, id>>
\* delivered at least once, those delivered more than once, the number of
\* restarts, and whether a write of seen_events.json has failed.
Notified(once, twice, restarts, lost) ==
    [once |-> once, twice |-> twice, restarts |-> restarts, lost |-> lost]
NoneNotified == Notified({}, {}, 0, FALSE)

\* A command message: its number (modulo 2), the command, the sender and the
\* text after the command.
Request(seq, cmd, user_id, text) ==
    [seq |-> seq, cmd |-> cmd, user |-> user_id, text |-> text]
NoRequest == Request(0, "none", 0, <<>>)

Fresh ==
    /\ pc = "start"
    /\ new_events = <<>>
    /\ ev_idx = 0
    /\ snapshot = <<>>
    /\ usr_idx = 0
    /\ faults = 0
    /\ last_batch = <<>>
    /\ initial_ids = {}
    /\ init_mode = "none"
    /\ last_fetch = "none"
    /\ aborted = FALSE
    /\ last_save = "none"
    /\ repeated = FALSE
    /\ last_send = "none"
    /\ paused_at_start = {}
    /\ sent = {}
    /\ skipped = {}
    /\ request = NoRequest
    /\ fetched = NoFetch
    /\ notified = NoneNotified

Num(n) == Vol("num", n)

\* The whole program: the polling task and the command handlers of two users,
\* on a first run or after a restart.
Init ==
    /\ feed = [id : {"s1", "s2"}, volume : {Num(TickThreshold)}]
    /\ users_file = File({})
    /\ paused_file = File({})
    /\ keywords_file = File(NoKeywords)
    /\ seen_file \in {File({}), File({"1"})}
    /\ Loaded
    /\ Fresh
    /\ probe = NoProbe
    /\ context = NoContext
    /\ store = NoStore

ColdStart ==
    /\ pc = "start"
    /\ \E initial \in Responses, how \in SaveOutcomes :
          InitCold(initial, how) /\ UNCHANGED observed

WarmStart ==
    /\ pc = "start"
    /\ \E initial \in Responses, how \in SaveOutcomes :
          InitWarm(initial, how) /\ UNCHANGED observed

PollTick ==
    /\ pc = "sleep"
    /\ \E recent \in Responses, how \in SaveOutcomes :
          Tick(recent, how) /\ UNCHANGED observed

Commands ==
    /\ \E user_id \in Users :
          \/ cmd_start(user_id)
          \/ cmd_pause(user_id)
          \/ cmd_resume(user_id)
          \/ \E text \in KeywordInputs : cmd_keywords(user_id, text)
    /\ UNCHANGED observed

Next == ColdStart \/ WarmStart \/ PollTick \/ Advance \/ Commands

Spec == Init /\ [][Next]_vars

\* The polling task alone, watched by the observer, on a first run or after a
\* restart: two subscribers left by earlier runs, one of them with a keyword,
\* and each of the feeds below.
Feeds ==
    {[id : {"s1", "s2"}, volume : {Num(WarmThreshold), Num(WarmThreshold + 1)}],
     [id : {"s1", "s2"}, volume : {Num(TickThreshold), Num(TickThreshold + 1)}],
     [id : {"s1", "s2"}, volume : {Num(TickThreshold), VolBad}],
     [id : {"s1", "s2"}, volume : {VolAbsent, VolNull}],
     [id : {"s1", "i1"}, volume : {Num(TickThreshold)}],
     [id : {"s2", "i0"}, volume : {Num(TickThreshold), VolBad}],
     [id : {"s2", "null"}, volume : {Num(TickThreshold)}],
     [id : {"s2", "absent"}, volume : {Num(TickThreshold)}]}

InitPoll ==
    /\ feed \in Feeds
    /\ users_file = File(Users)
    /\ paused_file = File({})
    /\ keywords_file = File([u \in {1} |-> << <<"B", "T", "C">> >>])
    /\ seen_file \in {File({}), File({"1"})}
    /\ Loaded
    /\ Fresh
    /\ probe = NoProbe
    /\ context = NoContext
    /\ store = NoStore

ObservedCold ==
    /\ pc = "start"
    /\ \E initial \in Responses, how \in SaveOutcomes :
          InitCold(initial, how) /\ ObserveInit(initial, "cold")
    /\ UNCHANGED <<fetched, notified>>

ObservedWarm ==
    /\ pc = "start"
    /\ \E initial \in Responses, how \in SaveOutcomes :
          InitWarm(initial, how) /\ ObserveInit(initial, "warm")
    /\ UNCHANGED <<fetched, notified>>

ObservedTick ==
    /\ pc = "sleep"
    /\ \E recent \in Responses, how \in SaveOutcomes :
          Tick(recent, how) /\ ObserveTick(recent, how)
    /\ UNCHANGED <<fetched, notified>>

ObservedAdvance ==
    /\ \E outcome \in SendOutcomes : AfterSend(outcome) /\ ObserveSend(outcome)
    /\ UNCHANGED <<fetched, notified>>

NextPoll == ObservedCold \/ ObservedWarm \/ ObservedTick \/ ObservedAdvance

SpecPoll == InitPoll /\ [][NextPoll]_vars

\* The polling task alone on one of the feeds, with what each request for the
\* market list came to noted down.
InitFetch ==
    /\ InitPoll
    /\ feed = [id : {"s1", "s2"},
               volume : {Num(TickThreshold), Num(TickThreshold + 1)}]

FetchedCold ==
    /\ pc = "start"
    /\ \E r \in FetchReplies, how \in SaveOutcomes :
          /\ InitCold(fetch_recent_events(r), how)
          /\ ObserveInit(fetch_recent_events(r), "cold")
          /\ fetched' = r
          /\ UNCHANGED notified

FetchedWarm ==
    /\ pc = "start"
    /\ \E r \in FetchReplies, how \in SaveOutcomes :
          /\ InitWarm(fetch_recent_events(r), how)
          /\ ObserveInit(fetch_recent_events(r), "warm")
          /\ fetched' = r
          /\ UNCHANGED notified

FetchedTick ==
    /\ pc = "sleep"
    /\ \E r \in FetchReplies, how \in SaveOutcomes :
          /\ Tick(fetch_recent_events(r), how)
          /\ ObserveTick(fetch_recent_events(r), how)
          /\ fetched' = r
          /\ UNCHANGED notified

NextFetch == FetchedCold \/ FetchedWarm \/ FetchedTick \/ ObservedAdvance

SpecFetch == InitFetch /\ [][NextFetch]_vars

\* The polling task over several runs of the process: it may be killed at any
\* moment and started again from the files, and every delivered notification
\* is noted down.  The first run is a first run (no event seen); every later
\* run starts from what the files hold.
InitCrash ==
    /\ InitPoll
    /\ seen_file = File({})
    /\ feed = [id : {"s1", "s2"}, volume : {Num(WarmThreshold), Num(WarmThreshold + 1)}]

Unwatched == UNCHANGED <<watched, request, fetched>>

\* Storage.save_seen_events (lines 73-79) has returned: a write that failed is
\* noted down.
SaveNoted(how) ==
    Notified(notified.once, notified.twice, notified.restarts,
             notified.lost \/ how # "ok")

CrashCold ==
    /\ pc = "start"
    /\ \E initial \in Responses, how \in SaveOutcomes :
          /\ InitCold(initial, how)
          /\ notified' = SaveNoted(how)
    /\ Unwatched

CrashWarm ==
    /\ pc = "start"
    /\ \E initial \in Responses, how \in SaveOutcomes :
          /\ InitWarm(initial, how)
          /\ notified' = SaveNoted(how)
    /\ Unwatched

CrashTick ==
    /\ pc = "sleep"
    /\ \E recent \in Responses, how \in SaveOutcomes :
          /\ Tick(recent, how)
          /\ notified' = SaveNoted(how)
    /\ Unwatched

\* send_message returns (the notification is delivered) or raises.
CrashAdvance ==
    /\ \E outcome \in SendOutcomes :
          /\ AfterSend(outcome)
          /\ notified' =
                IF outcome # "delivered" THEN notified
                ELSE LET p == <<snapshot[usr_idx],
                                StrIdDefault(new_events[ev_idx].id)>>
                     IN Notified(notified.once \cup {p},
                                 IF p \in notified.once
                                 THEN notified.twice \cup {p}
                                 ELSE notified.twice,
                                 notified.restarts, notified.lost)
    /\ Unwatched

\* The process is killed and started again: __init__ loads the four
\* collections (lines 513-517) and start creates the polling task anew (line
\* 869).
Crash ==
    /\ notified.restarts < MaxCrashes
    /\ subscribed_users' = Load(users_file, {})
    /\ paused_users' = Load(paused_file, {})
    /\ user_keywords' = Load(keywords_file, NoKeywords)
    /\ seen_events' = Load(seen_file, {})
    /\ pc' = "start"
    /\ new_events' = <<>>
    /\ ev_idx' = 0
    /\ snapshot' = <<>>
    /\ usr_idx' = 0
    /\ paused_at_start' = {}
    /\ sent' = {}
    /\ skipped' = {}
    /\ notified' = Notified(notified.once, notified.twice, notified.restarts + 1,
                          notified.lost)
    /\ Unwatched
    /\ UNCHANGED <<registryFiles, seen_file, environment, faults>>

\* /start, /pause and /resume of the user who has no keywords.
CrashCommands ==
    /\ \E user_id \in Users \ {1} :
          \/ cmd_start(user_id)
          \/ cmd_pause(user_id)
          \/ cmd_resume(user_id)
    /\ UNCHANGED observed

NextCrash ==
    CrashCold \/ CrashWarm \/ CrashTick \/ CrashAdvance \/ Crash \/ CrashCommands

SpecCrash == InitCrash /\ [][NextCrash]_vars

\* The same, with the scheduling of the event loop: a task whose await has
\* completed (the sleep, the fetch with its timeout, the send) is resumed.
SpecPollFair == SpecPoll /\ WF_vars(NextPoll)

\* The matcher alone: one call of matches_keywords on each of four events and
\* each keyword list of at most MaxKeywordChars characters, counting one
\* separator for every keyword.
TokenChars == {"B", "\"", "'", " "}

MatchEvents == [id : {"s1", "s2", "i0", "s3"}, volume : {VolAbsent}]

RECURSIVE KeywordLists(_)
KeywordLists(w) ==
    {<<>>} \cup
      (IF w = 0 THEN {}
       ELSE UNION {{<<t>> \o l : l \in KeywordLists(w - 1 - Len(t))} :
                     t \in SeqsUpTo(TokenChars, w - 1)})

InitMatch ==
    /\ feed = {}
    /\ users_file = File({})
    /\ paused_file = File({})
    /\ keywords_file = File(NoKeywords)
    /\ seen_file = File({})
    /\ Loaded
    /\ Fresh
    /\ probe \in {Probe(e, l, FALSE, FALSE) :
                     e \in MatchEvents, l \in KeywordLists(MaxKeywordChars)}
    /\ context = NoContext
    /\ store = NoStore

Match ==
    /\ ~probe.done
    /\ probe' = Probe(probe.event, probe.keywords, TRUE,
                      matches_keywords(probe.event, probe.keywords))
    /\ UNCHANGED <<registry, registryFiles, poller, observed, feed, context,
                   store, faults>>

SpecMatch == InitMatch /\ [][Match]_vars

\* The command handlers alone, each given the messages below by two users,
\* with the message noted down as it is handled.
KeywordTexts ==
    KeywordInputs \cup
        { <<>>,
          <<" ">>,
          <<"B", ",", "'">>,
          <<" ", "c", "l", "e", "a", "r">> }

DealTexts ==
    { <<>>,
      <<"https://", "example.com/">>,
      <<"polymarket.com/event/">>,
      <<"https://", "polymarket.com/event/", "btc-100k">> }

InitCmd ==
    /\ feed = {}
    /\ users_file = File({})
    /\ paused_file = File({})
    /\ keywords_file = File(NoKeywords)
    /\ seen_file = File({"1"})
    /\ Loaded
    /\ Fresh
    /\ probe = NoProbe
    /\ context = NoContext
    /\ store = NoStore

Receive(cmd, user_id, text) ==
    /\ request' = Request(1 - request.seq, cmd, user_id, text)
    /\ UNCHANGED <<watched, fetched, notified>>

Start == \E user_id \in Users :
    Receive("start", user_id, <<>>) /\ cmd_start(user_id)

Pause == \E user_id \in Users :
    Receive("pause", user_id, <<>>) /\ cmd_pause(user_id)

Resume == \E user_id \in Users :
    Receive("resume", user_id, <<>>) /\ cmd_resume(user_id)

Help == \E user_id \in Users :
    Receive("help", user_id, <<>>) /\ cmd_help(user_id)

Keywords == \E user_id \in Users, text \in KeywordTexts :
    Receive("keywords", user_id, text) /\ cmd_keywords(user_id, text)

Deal == \E user_id \in Users, text \in DealTexts :
    Receive("deal", user_id, text) /\ cmd_deal(user_id, text)

NextCmd == Start \/ Pause \/ Resume \/ Help \/ Keywords \/ Deal

SpecCmd == InitCmd /\ [][NextCmd]_vars

\* ---------------------------------------------------- market context call
ShortLimit == 50        \* len(text) > 50 (line 209), len(text) < 50 (line 219)
ServerErrorFrom == 500  \* response.status >= 500 (line 232)
RetryLimit == 1         \* retry < 1 (lines 219, 232, 239)

\* A response body: its length, and the length of what is left of it when it
\* is cut at '__SOURCES__' and stripped (-1 when it holds no such marker).
Body(len, prefix) == [len |-> len, prefix |-> prefix]
Bodies ==
    {Body(len, -1) : len \in {0, ShortLimit - 1, ShortLimit, ShortLimit + 1}}
      \cup {Body(len, 0) : len \in {ShortLimit - 1, ShortLimit + 1}}

Statuses == {200, 302, 400, 404, 499, 500, 503}

\* What one request comes to: a response with a status and a body, the
\* timeout of 120 s, an aiohttp.ClientError, or another exception.
Reply(kind, status, body) == [kind |-> kind, status |-> status, body |-> body]
Replies ==
    {Reply("status", st, b) : st \in Statuses, b \in Bodies}
      \cup {Reply(kind, 0, Body(0, -1)) : kind \in {"timeout", "network", "error"}}

NoResult == [none |-> TRUE, len |-> 0]
Text(len) == [none |-> FALSE, len |-> len]

\* Line 209: if text and len(text) > 50
IsLongEnough(body) == body.len # 0 /\ body.len > ShortLimit

\* Lines 211-214: the text returned for a body that is long enough
ReturnedText(body) == Text(IF body.prefix >= 0 THEN body.prefix ELSE body.len)

\* A faulty test, which takes every status from 400 on for a server error.
IsClientOrServerError(status) == status >= 400
\* Line 232: response.status >= 500
IsServerError(status) == status >= ServerErrorFrom

\* Lines 206-246: whether the call, given this reply, calls itself again.
Retries(reply, retry) ==
    /\ retry < RetryLimit
    /\ \/ /\ reply.kind = "status"
          /\ reply.status = 200
          /\ ~IsLongEnough(reply.body)
          /\ reply.body.len < ShortLimit
       \/ /\ reply.kind = "status"
          /\ reply.status \notin {200, 400}
          /\ IsServerError(reply.status)
       \/ reply.kind = "timeout"

\* Lines 177-250 up to the first await of a sleep or the return: the guard on
\* the slug, one request, and the handling of its reply.
Attempt ==
    /\ context.pc = "call"
    /\ IF context.slug = ""
       THEN context' = Context("", "done", context.retry, context.attempts,
                               NoResult)
       ELSE \E reply \in Replies :
               LET attempts == Append(context.attempts, reply) IN
               context' =
                  IF /\ reply.kind = "status"
                     /\ reply.status = 200
                     /\ IsLongEnough(reply.body)
                  THEN Context(context.slug, "done", context.retry, attempts,
                               ReturnedText(reply.body))
                  ELSE IF Retries(reply, context.retry)
                  THEN Context(context.slug, "backoff", context.retry, attempts,
                               NoResult)
                  ELSE Context(context.slug, "done", context.retry, attempts,
                               NoResult)
    /\ UNCHANGED <<registry, registryFiles, poller, observed, feed, probe, store,
                   faults>>

\* Lines 221-222, 234-235, 241-242: the sleep ends and the function is called
\* with retry + 1.
Backoff ==
    /\ context.pc = "backoff"
    /\ context' = Context(context.slug, "call", context.retry + 1,
                          context.attempts, NoResult)
    /\ UNCHANGED <<registry, registryFiles, poller, observed, feed, probe, store,
                   faults>>

\* One call of fetch_market_context, as cmd_deal makes it (line 598), with
\* every reply to each request.
InitContext ==
    /\ feed = {}
    /\ users_file = File({})
    /\ paused_file = File({})
    /\ keywords_file = File(NoKeywords)
    /\ seen_file = File({})
    /\ Loaded
    /\ Fresh
    /\ probe = NoProbe
    /\ context \in {Context(slug, "call", 0, <<>>, NoResult) : slug \in {""} \cup Slugs}
    /\ store = NoStore

NextContext == Attempt \/ Backoff

SpecContext == InitContext /\ [][NextContext]_vars

\* The same, with every await of the call (the request under its timeout, the
\* sleep) completing.
SpecContextFair == SpecContext /\ WF_vars(NextContext)

\* ------------------------------------------------------- storage as JSON
\* What a file is: missing, bytes json.load rejects, or a JSON document (an
\* object with string keys, or an array).
Missing == [kind |-> "missing"]
Garbage == [kind |-> "garbage"]
JObject(fields) == [kind |-> "object", fields |-> fields]
JArray(items) == [kind |-> "array", items |-> items]

Range(seq) == {seq[i] : i \in 1..Len(seq)}

\* list(a_set): the elements once each, in any order.
Listings(S) == {q \in [1..Cardinality(S) -> S] : Range(q) = S}

Digit(d) ==
    CASE d = 0 -> "0" [] d = 1 -> "1" [] d = 2 -> "2" [] d = 3 -> "3"
      [] d = 4 -> "4" [] d = 5 -> "5" [] d = 6 -> "6" [] d = 7 -> "7"
      [] d = 8 -> "8" [] OTHER -> "9"

\* str(n) of a natural number, as json.dump writes an integer key (line 116)
RECURSIVE StrOfInt(_)
StrOfInt(n) ==
    IF n < 10 THEN <<Digit(n)>> ELSE Append(StrOfInt(n \div 10), Digit(n % 10))

IsDigits(key) ==
    /\ key # <<>>
    /\ \A i \in 1..Len(key) : \E d \in 0..9 : key[i] = Digit(d)

\* A faulty conversion, which reads the last digit only.
IntOfLastDigit(key) == CHOOSE d \in 0..9 : key[Len(key)] = Digit(d)
\* int(k) of a string of decimal digits (line 91)
RECURSIVE IntOfStr(_)
IntOfStr(key) ==
    IF key = <<>> THEN 0
    ELSE 10 * IntOfStr(SubSeq(key, 1, Len(key) - 1))
           + (CHOOSE d \in 0..9 : key[Len(key)] = Digit(d))

\* json.dump({key: list(values)}, f) (lines 57, 77, 117): one of the
\* documents, by the order of the list.
DumpSet(key, values) ==
    {JObject([k \in {key} |-> items]) : items \in Listings(values)}

\* set(data.get(key, [])) under "except Exception" (lines 44-51, 64-71,
\* 104-111): a missing file, undecodable bytes and a document that is no
\* object give the empty set.
LoadSet(key, file) ==
    IF file.kind # "object" THEN {}
    ELSE IF key \notin DOMAIN file.fields THEN {}
    ELSE Range(file.fields[key])

\* json.dump(keywords, f) (line 97): the integer keys are written as strings.
DumpKeywords(keywords) ==
    JObject([key \in {StrOfInt(u) : u \in DOMAIN keywords} |->
                keywords[CHOOSE u \in DOMAIN keywords : StrOfInt(u) = key]])

\* {int(k): v for k, v in data.items()} under "except Exception" (lines
\* 84-91): a key that is no integer raises, and the mapping is empty.
LoadKeywords(file) ==
    IF file.kind # "object" THEN NoKeywords
    ELSE IF \E key \in DOMAIN file.fields : ~IsDigits(key) THEN NoKeywords
    ELSE [u \in {IntOfStr(key) : key \in DOMAIN file.fields} |->
             file.fields[CHOOSE key \in DOMAIN file.fields : IntOfStr(key) = u]]

\* The key of the document of each resource that is a set: 'events' (lines
\* 68, 77) or 'users' (lines 48, 57, 108, 117), as its characters.
KeyOf(resource) ==
    IF resource = "seen" THEN <<"e", "v", "e", "n", "t", "s">>
    ELSE <<"u", "s", "e", "r", "s">>

\* The documents Storage.save_* writes for a value.
Dumps(resource, value) ==
    IF resource = "keywords" THEN {DumpKeywords(value)}
    ELSE DumpSet(KeyOf(resource), value)

\* Storage.load_* on a file.
Loads(resource, file) ==
    IF resource = "keywords" THEN LoadKeywords(file)
    ELSE LoadSet(KeyOf(resource), file)

EmptyOf(resource) == IF resource = "keywords" THEN NoKeywords ELSE {}

\* The values of the model: user ids of one and two digits, the ids of seen
\* events, keyword lists.
StoreUsers == {1, 12}
StoreIds == {"1", "2", "None"}
StoreLists == { << <<"B", "T", "C">> >>, << <<"B">>, <<"'">> >> }
StoreKeywords == UNION {[S -> StoreLists] : S \in SUBSET StoreUsers}

ValuesOf(resource) ==
    CASE resource = "seen" -> SUBSET StoreIds
      [] resource = "keywords" -> StoreKeywords
      [] OTHER -> SUBSET StoreUsers

\* The files a run can find: none, undecodable bytes, documents of another
\* shape, the document of an earlier save.
FoundFiles(resource) ==
    {Missing, Garbage, JArray(<<>>), JObject([k \in {<<"o">>} |-> <<>>]),
     JObject([k \in {<<"x">>} |-> <<>>])}
      \cup UNION {Dumps(resource, v) : v \in ValuesOf(resource)}

InitStore ==
    /\ feed = {}
    /\ users_file = File({})
    /\ paused_file = File({})
    /\ keywords_file = File(NoKeywords)
    /\ seen_file = File({})
    /\ Loaded
    /\ Fresh
    /\ probe = NoProbe
    /\ context = NoContext
    /\ \E resource \in {"users", "seen", "keywords", "paused"} :
          store \in {Store(resource, v, "none", f, at, EmptyOf(resource)) :
                        v \in ValuesOf(resource),
                        f \in {Missing, Garbage},
                        at \in {"save"}}
                     \cup
                    {Store(resource, EmptyOf(resource), "none", f, "load",
                           EmptyOf(resource)) : f \in FoundFiles(resource)}

\* Storage.save_* (lines 54-60, 74-79, 94-100, 114-120): the document is
\* written; or open() raises and the file is as it was; or the write raises
\* after the file was truncated.
Save ==
    /\ store.pc = "save"
    /\ \E how \in {"ok", "open_failed", "write_failed"} :
       \E file \in CASE how = "ok" -> Dumps(store.resource, store.value)
                     [] how = "open_failed" -> {store.file}
                     [] OTHER -> {Garbage} :
          store' = Store(store.resource, store.value, how, file, "load",
                         store.loaded)
    /\ UNCHANGED <<registry, registryFiles, poller, observed, feed, probe,
                   context, faults>>

\* Storage.load_* at the next start (lines 513-517)
Restart ==
    /\ store.pc = "load"
    /\ store' = Store(store.resource, store.value, store.how, store.file,
                      "done", Loads(store.resource, store.file))
    /\ UNCHANGED <<registry, registryFiles, poller, observed, feed, probe,
                   context, faults>>

NextStore == Save \/ Restart

SpecStore == InitStore /\ [][NextStore]_vars

\* ------------------------------------------------------------- properties
\* str(event.get('id', '')) of an event (line 816)
EventId(event) == StrIdDefault(event.id)

\* The step ends at a send_message call (line 860) it has just made.
Attempted ==
    /\ pc' = "sending"
    /\ <<pc, ev_idx, usr_idx>>' # <<pc, ev_idx, usr_idx>>

\* The user and the event of the send_message call the task is suspended in.
AttemptUser == snapshot[usr_idx]
AttemptEvent == EventId(new_events[ev_idx])

\* The ids of the events of the tick's new_events.
NewIds == {EventId(new_events[k]) : k \in 1..Len(new_events)}

\* The step is a steady-state tick (lines 808-840).
IsTickStep == pc = "sleep" /\ last_fetch' = "tick"

\* C1 as stated: in no reachable state has a notification for an event been
\* attempted while the persisted seen set lacks the event's id.
C1_AsStated == \A p \in sent : p[2] \in Load(seen_file, {})

\* C1: when a notification of a tick has been attempted, save_seen_events was
\* called in that tick and had returned; if its write succeeded, the persisted
\* seen set holds the ids of all events discovered in the tick.  (A failed
\* write is logged and the notifications go out all the same.)
C1_SaveBeforeSend ==
    sent # {} =>
        /\ last_save # "none"
        /\ last_save = "ok" => NewIds \subseteq Load(seen_file, {})

C1_Witness ==
    /\ pc = "sending"
    /\ sent # {}
    /\ last_save = "ok"
    /\ Len(new_events) = 2

\* C2: a steady-state tick that adds an id to the in-memory seen set (no
\* exception ending it, no write failing) ends with the persisted seen set
\* equal to the in-memory seen set.
C2_TickPersists ==
    [][(IsTickStep /\ seen_events' # seen_events /\ ~aborted' /\ faults' = faults)
          => Load(seen_file', {}) = seen_events']_vars

\* C3: no step of initialisation, tick or command handler removes an id from
\* the in-memory seen set.
C3_SeenMonotone == [][seen_events \subseteq seen_events']_vars

C3_Witness ==
    /\ seen_events = {"1", "2"}
    /\ pc = "sleep"
    /\ paused_users # {}
    /\ DOMAIN user_keywords # {}

C5_VolumeRule ==
    [][IsTickStep =>
          \A k \in 1..Len(last_batch') :
              LET event == last_batch'[k] IN
              (/\ EventId(event) # ""
               /\ EventId(event) \notin seen_events
               /\ ~VolumeRaises(event.volume))
                 => /\ EventId(event) \in seen_events'
                    /\ (VolumeFloat(event.volume) <= 50000)
                          <=> (\E n \in 1..Len(new_events') : new_events'[n] = event)
      ]_vars

\* C6: after a cold start no event of the initial fetch is in the new_events
\* of a steady-state tick.
C6_ColdNeverNew ==
    (init_mode = "cold" /\ last_fetch = "tick") => NewIds \cap initial_ids = {}

\* The events of a batch that carry an id (the key is there and is not null).
WithId(batch) == {k \in 1..Len(batch) : batch[k].id \notin {"absent", "null"}}

\* C7: right after a cold initialisation whose write did not fail, the seen set
\* is the set of the string forms of the ids of the initial fetch, it is what
\* the file holds, and no notification has been sent.
C7_ColdInit ==
    (init_mode = "cold" /\ last_fetch = "init" /\ faults = 0)
       => /\ seen_events = {StrId(last_batch[k].id) : k \in WithId(last_batch)}
          /\ Load(seen_file, {}) = seen_events
          /\ sent = {}
          /\ pc # "sending"

\* C8: a warm initialisation adds the id of an unseen event of the initial
\* fetch (one with an id and a volume) if and only if its volume exceeds
\* 10,000, and sends no notification.
C8_WarmInit ==
    [][(pc = "start" /\ seen_events # {} /\ last_fetch' = "init")
          => /\ \A k \in 1..Len(last_batch') :
                   LET event == last_batch'[k] IN
                   (/\ EventId(event) # ""
                    /\ EventId(event) \notin seen_events
                    /\ ~VolumeRaises(event.volume))
                      => (EventId(event) \in seen_events'
                            <=> VolumeFloat(event.volume) > 10000)
             /\ sent' = {}
             /\ pc' # "sending"]_vars

\* C9: every send_message goes to a user who is not in the paused set when the
\* call is made, whatever /pause and /resume were handled between deliveries.
C9_PausedGetNothing == [][Attempted => AttemptUser' \notin paused_users]_vars

\* A user was notified of the first event of the tick, paused, and was skipped
\* for the second.
C9_Witness ==
    /\ pc = "sending"
    /\ Len(new_events) = 2
    /\ ev_idx = 2
    /\ \E u \in Users :
          /\ u \notin paused_at_start
          /\ <<u, EventId(new_events[1])>> \in sent
          /\ <<u, EventId(new_events[2])>> \in skipped

\* C10 as stated: a user who was paused when the fan-out of a tick began is
\* sent no event of that tick, also after a /resume during the fan-out.
C10_AsStated == [][Attempted => AttemptUser' \notin paused_at_start']_vars

\* C10: a /resume is never retroactive: no user is sent an event the fan-out
\* has skipped for them while they were paused.  (Deliveries start again with
\* the first paused check after the /resume, which may be for an event of the
\* tick in progress.)
C10_NotRetroactive ==
    [][Attempted => <<AttemptUser', AttemptEvent'>> \notin skipped']_vars

\* A user paused when the fan-out began was skipped for the first event of the
\* tick, resumed, and was sent the second.
C10_Witness ==
    /\ pc = "sending"
    /\ Len(new_events) = 2
    /\ ev_idx = 2
    /\ AttemptUser \in paused_at_start
    /\ <<AttemptUser, EventId(new_events[1])>> \in skipped
    /\ <<AttemptUser, EventId(new_events[2])>> \in sent

\* The deliveries the step has decided not to make: <<i, u>> for the user u
\* whose turn for new_events'[i] came in the step and passed without a
\* send_message.  The step starts after position <<i0, j0>> of the snapshot
\* snap0 and ends at the send it is suspended in, or at the end of the list.
PassedBetween(i0, j0, snap0) ==
    LET endI == IF pc' = "sending" THEN ev_idx' ELSE Len(new_events') + 1
        endJ == IF pc' = "sending" THEN usr_idx' ELSE 0
        snapOf(i) == IF i = i0 THEN snap0
                     ELSE IF i = endI THEN snapshot'
                     ELSE Order(subscribed_users)
    IN {<<i, snapOf(i)[j]>> : <<i, j>> \in
          {q \in (1..Len(new_events')) \X (1..Cardinality(Users)) :
              /\ q[1] >= i0 /\ q[1] <= endI
              /\ q[2] <= Len(snapOf(q[1]))
              /\ q[1] = i0 => q[2] > j0
              /\ q[1] = endI => q[2] < endJ}}

PassedOver ==
    IF pc = "sending" THEN PassedBetween(ev_idx, usr_idx, snapshot)
    ELSE IF pc = "sleep" /\ new_events' # <<>> /\ subscribed_users # {}
              /\ <<pc, seen_events, new_events>>' # <<pc, seen_events, new_events>>
         THEN PassedBetween(1, 0, Order(subscribed_users))
    ELSE {}

\* C11: a send_message goes to a user with a keyword list only if the event
\* matches the list stored at that moment; and a user whose turn passes
\* without a send_message is paused, or has a non-empty list the event does not
\* match: a user who is not paused and has no keyword entry is sent every event.
C11_KeywordGate ==
    [][/\ Attempted =>
            \/ AttemptUser' \notin DOMAIN user_keywords
            \/ matches_keywords(new_events'[ev_idx'], user_keywords[AttemptUser'])
       /\ \A q \in PassedOver :
            \/ q[2] \in paused_users
            \/ /\ q[2] \in DOMAIN user_keywords
               /\ user_keywords[q[2]] # <<>>
               /\ ~matches_keywords(new_events'[q[1]], user_keywords[q[2]])
      ]_vars

\* User 1 is not paused and has a list the event does not match; the event is
\* being sent to user 2, who has no keyword entry.
C11_Witness ==
    /\ pc = "sending"
    /\ snapshot = <<1, 2>>
    /\ usr_idx = 2
    /\ paused_users = {}
    /\ DOMAIN user_keywords = {1}
    /\ ~matches_keywords(new_events[ev_idx], user_keywords[1])

\* The user may be sent the event (lines 850-857): not paused, and no keyword
\* list or a list the event matches.
Eligible(user_id, event) ==
    /\ user_id \notin paused_users
    /\ \/ user_id \notin DOMAIN user_keywords
       \/ user_keywords[user_id] = <<>>
       \/ matches_keywords(event, user_keywords[user_id])

\* C12: when send_message has raised, the task goes on with the fan-out: the
\* step after the failure passes over no eligible user of the same event nor
\* of the remaining events of the tick, and the polling task is alive, at the
\* next send or at the sleep before the next tick.
C12_FailureIsolated ==
    [][(pc = "sending" /\ last_send' = "raised")
          => /\ pc' \in {"sending", "sleep"}
             /\ \A q \in PassedOver : ~Eligible(q[2], new_events'[q[1]])
             /\ pc' = "sending" => Eligible(AttemptUser', new_events'[ev_idx'])
      ]_vars

\* The send of the first event to user 1 has raised; the same event is being
\* sent to user 2.
C12_Witness ==
    /\ pc = "sending"
    /\ last_send = "raised"
    /\ ev_idx = 1
    /\ usr_idx = 2
    /\ sent = {<<1, EventId(new_events[1])>>, <<2, EventId(new_events[1])>>}
    /\ Len(new_events) = 2

\* The reference matcher.  The text is the title, a space, and the questions
\* with a space between two of them, in lower case.
RefLowerOf == [c \in {"B", "T", "C", "U", "P", "L", "E", "A", "R"} |->
                 CASE c = "B" -> "b" [] c = "T" -> "t" [] c = "C" -> "c"
                   [] c = "U" -> "u" [] c = "P" -> "p" [] c = "L" -> "l"
                   [] c = "E" -> "e" [] c = "A" -> "a" [] c = "R" -> "r"]
RefLower(s) == [i \in 1..Len(s) |-> IF s[i] \in DOMAIN RefLowerOf
                                    THEN RefLowerOf[s[i]] ELSE s[i]]

RECURSIVE RefJoin(_)
RefJoin(words) ==
    IF Len(words) = 0 THEN <<>>
    ELSE IF Len(words) = 1 THEN words[1]
    ELSE RefJoin(SubSeq(words, 1, Len(words) - 1)) \o <<" ">> \o words[Len(words)]

RefText(event) ==
    RefLower(Title(event.id) \o <<" ">> \o RefJoin(Questions(event.id)))

\* The token without the blanks around it.
RefTrim(t) ==
    LET solid == {i \in 1..Len(t) : t[i] # " "}
    IN IF solid = {} THEN <<>>
       ELSE SubSeq(t, CHOOSE i \in solid : \A j \in solid : i <= j,
                      CHOOSE i \in solid : \A j \in solid : i >= j)

RefQuotes == {"\"", "'"}

\* A trimmed token wrapped in one pair of quote characters of the same kind.
RefIsPair(t) == Len(t) >= 2 /\ t[1] \in RefQuotes /\ t[Len(t)] = t[1]

\* What is looked for: the phrase between the quotes, or the token itself.
RefNeedle(t) ==
    RefLower(IF RefIsPair(t) THEN [i \in 1..(Len(t) - 2) |-> t[i + 1]] ELSE t)

RefOccurs(needle, text) ==
    \E at \in 0..Len(text) :
        /\ at + Len(needle) <= Len(text)
        /\ \A i \in 1..Len(needle) : text[at + i] = needle[i]

RefMatches(event, keywords) ==
    \/ keywords = <<>>
    \/ \E i \in 1..Len(keywords) :
          /\ RefTrim(keywords[i]) # <<>>
          /\ RefOccurs(RefNeedle(RefTrim(keywords[i])), RefText(event))

\* C13: matches_keywords returns what the reference matcher returns, for every
\* event and keyword list; a list of blank tokens only matches no event, and a
\* token that does not occur changes nothing.
C13_MatcherAgrees ==
    probe.done =>
        /\ probe.result = RefMatches(probe.event, probe.keywords)
        /\ (probe.keywords # <<>>
              /\ \A i \in 1..Len(probe.keywords) : RefTrim(probe.keywords[i]) = <<>>)
             => ~probe.result
        /\ \A i \in 1..Len(probe.keywords) :
             ~RefMatches(probe.event, <<probe.keywords[i]>>)
               => probe.result =
                    matches_keywords(probe.event,
                        SubSeq(probe.keywords, 1, i - 1)
                          \o SubSeq(probe.keywords, i + 1, Len(probe.keywords)))
                    \/ Len(probe.keywords) = 1

\* C14: a token is matched as a phrase (without its quotes) exactly when it is
\* wrapped in one pair of quote characters of the same kind; any other token,
\* a single quote character included, is looked for as it is, quote
\* characters and all.
C14_QuotingRule ==
    (probe.done /\ Len(probe.keywords) = 1 /\ RefTrim(probe.keywords[1]) # <<>>)
       => LET t == RefTrim(probe.keywords[1])
              literal == RefOccurs(RefLower(t), RefText(probe.event))
              phrase == RefOccurs(RefLower(SubSeq(t, 2, Len(t) - 1)),
                                  RefText(probe.event))
          IN /\ RefIsPair(t) => probe.result = phrase
             /\ ~RefIsPair(t) => probe.result = literal

\* The step is a mutating command: it changes a registry collection.
Mutates(collection) == collection' # collection

Handles(cmd) == request'.seq # request.seq /\ request'.cmd = cmd

\* The step leaves the keyword entries of all users but user_id as they were.
OthersKept(user_id) ==
    \A v \in Users \ {user_id} :
        /\ (v \in DOMAIN user_keywords') = (v \in DOMAIN user_keywords)
        /\ v \in DOMAIN user_keywords => user_keywords'[v] = user_keywords[v]

\* C16: "/keywords <list>" with a non-blank keyword leaves the sender with
\* exactly the keywords of the message, whatever list he had; "/keywords
\* clear" by a user with an entry removes the entry, after which his list
\* reads as empty and no event is filtered out for him; neither changes the
\* entry of another user.
C16_KeywordRegistry ==
    [][\A u \in Users, text \in KeywordTexts :
          Handles("keywords") /\ request'.user = u /\ request'.text = text =>
              LET keyword_input == Strip(text)
                  keywords == ParseKeywords(keyword_input)
              IN /\ OthersKept(u)
                 /\ IsClear(keyword_input) /\ u \in DOMAIN user_keywords
                       => /\ u \notin DOMAIN user_keywords'
                          /\ KeywordsOf(u)' = <<>>
                          /\ \A event \in MatchEvents : ~IsFilteredOut(u, event)'
                 /\ ~IsClear(keyword_input) /\ keywords # <<>>
                       => /\ u \in DOMAIN user_keywords'
                          /\ user_keywords'[u] = keywords
      ]_vars

\* User 1, who had the keyword BTC as user 2 has, has just set the keywords
\* B and ' (the file, whose write failed, still holds the list replaced).
C16_Witness ==
    /\ request.cmd = "keywords"
    /\ request.user = 1
    /\ request.text = <<"B", ",", "'">>
    /\ user_keywords = [u \in Users |->
                           IF u = 1 THEN << <<"B">>, <<"'">> >>
                           ELSE << <<"B", "T", "C">> >>]
    /\ Load(keywords_file, NoKeywords) = [u \in Users |-> << <<"B", "T", "C">> >>]

\* A text without a non-blank keyword: spaces and commas only, or nothing.
NoKeyword(text) == \A i \in 1..Len(text) : text[i] \in {" ", ","}

\* The messages that must not mutate, given the state they arrive in.
MustNotMutate(cmd, user_id, text) ==
    \/ cmd = "pause" /\ user_id \in paused_users
    \/ cmd = "resume" /\ user_id \notin paused_users
    \/ cmd = "help"
    \/ cmd = "keywords" /\ NoKeyword(text)
    \/ cmd = "deal" /\ (text = <<>> \/ parse_polymarket_url(text) = None)

\* C17: /pause by a paused user, /resume by a user who is not paused, /help,
\* /keywords with no argument or with no non-blank keyword, and /deal with no
\* argument or with a text that is no event URL leave the subscribed set, the
\* paused set, the keyword mapping and the seen set as they were, in memory
\* and in the files.
C17_NoMutation ==
    [][request'.seq # request.seq
          /\ MustNotMutate(request'.cmd, request'.user, request'.text)
          => UNCHANGED <<registry, registryFiles, seen_events, seen_file>>
      ]_vars

\* User 1, subscribed and paused with the keyword BTC, has just sent
\* "/keywords , ".
C17_Witness ==
    /\ request.cmd = "keywords"
    /\ request.user = 1
    /\ request.text = <<",", " ">>
    /\ subscribed_users = Users
    /\ paused_users = {1}
    /\ 1 \in DOMAIN user_keywords
    /\ user_keywords[1] = << <<"B", "T", "C">> >>
    /\ seen_events = {"1"}

\* The volume the specification reads from an event: zero when the field is
\* absent, null or not a number.
VolumeOrZero(v) == IF v.k = "num" THEN v.n ELSE 0

\* The unseen events of a batch that carry an id.
Unseen(batch) == {k \in WithId(batch) : EventId(batch[k]) \notin seen_events}

\* The step is a warm initialisation (lines 787-804).
IsWarmStep == pc = "start" /\ seen_events # {} /\ last_fetch' = "init"

\* C18: every unseen event of a batch is classified by its volume, read as
\* zero when absent, null or not a number, whatever else the batch holds: a
\* tick adds it to the seen set and hands it to the notifier if and only if
\* that volume is at most 50,000; a warm initialisation adds it to the seen set
\* if and only if that volume exceeds 10,000.
C18_VolumeZero ==
    [][/\ IsTickStep =>
             \A k \in Unseen(last_batch') :
                 LET event == last_batch'[k] IN
                 /\ EventId(event) \in seen_events'
                 /\ (VolumeOrZero(event.volume) <= TickThreshold)
                       <=> (\E n \in 1..Len(new_events') : new_events'[n] = event)
       /\ IsWarmStep =>
             \A k \in Unseen(last_batch') :
                 LET event == last_batch'[k] IN
                 (EventId(event) \in seen_events')
                    <=> (VolumeOrZero(event.volume) > WarmThreshold)
      ]_vars

\* The step is a fetch of the polling task: an initialisation or a tick.
IsFetchStep == pc \in {"start", "sleep"} /\ last_fetch' \in {"init", "tick"}

\* C19: an event whose id key is missing or null is skipped by the cold
\* initialisation, the warm initialisation and every tick: the ids a fetch adds
\* to the seen set are ids of events that carry one, and no event without an
\* id is handed to the notifier.
C19_NoIdSkipped ==
    [][IsFetchStep =>
          /\ seen_events' \ seen_events
                \subseteq {StrId(last_batch'[k].id) : k \in WithId(last_batch')}
          /\ \A n \in 1..Len(new_events') :
                new_events'[n].id \notin {"absent", "null"}
      ]_vars

\* C20: whatever fetch failed, write failed, delivery failed or event was
\* malformed during the initialisation or a tick, the polling task goes on to
\* perform steady-state ticks again and again.
C20_RunsForever == []<><<ObservedTick>>_vars

\* The reply is a 200 response whose body the call accepts.
IsAccepted(reply) ==
    reply.kind = "status" /\ reply.status = 200 /\ IsLongEnough(reply.body)

\* The replies after which a retry is allowed: a timeout, a status of 500 or
\* above, a 200 response whose body is not accepted.
MayRetryAfter(reply) ==
    \/ reply.kind = "timeout"
    \/ reply.kind = "status" /\ reply.status >= 500
    \/ reply.kind = "status" /\ reply.status = 200 /\ ~IsAccepted(reply)

\* C21: a call of fetch_market_context makes at most two requests, the second
\* one only after a timeout, a status of 500 or above or a 200 response that
\* was not accepted (never after a 4xx status or a network error); when no
\* request brought an accepted body it returns None; and it returns.
C21_OneRetry ==
    /\ [](LET a == context.attempts IN
          /\ Len(a) <= 2
          /\ context.retry <= 1
          /\ Len(a) = 2 => MayRetryAfter(a[1])
          /\ context.pc = "backoff" => Len(a) = 1 /\ MayRetryAfter(a[1])
          /\ (context.pc = "done" /\ \A i \in 1..Len(a) : ~IsAccepted(a[i]))
                => context.result = NoResult)
    /\ <>(context.pc = "done")

\* The first request met a 503, the second a timeout, and the call returned
\* None.
C21_Witness ==
    /\ context.pc = "done"
    /\ Len(context.attempts) = 2
    /\ context.attempts[1].kind = "status"
    /\ context.attempts[1].status = 503
    /\ context.attempts[2].kind = "timeout"
    /\ context.result = NoResult

\* C22: a 200 response on the first attempt is either accepted and returned or
\* followed by a second request: the call never returns None after a single
\* request that met a 200 response.
C22_ShortAlwaysRetried ==
    LET a == context.attempts IN
    (context.pc = "done" /\ Len(a) = 1 /\ a[1].kind = "status" /\ a[1].status = 200)
       => /\ ~context.result.none
          /\ context.result = ReturnedText(a[1].body)

\* C23: for each of the four resources, load_* after a save_* that succeeded
\* returns the value saved; load_* on a missing or undecodable file returns
\* the empty set or mapping.
C23_RoundTrip ==
    store.pc = "done" =>
        /\ store.how = "ok" => store.loaded = store.value
        /\ store.file.kind \in {"missing", "garbage"}
              => store.loaded = EmptyOf(store.resource)

\* The keyword lists of users 1 and 12 were saved and loaded again.
C23_Witness ==
    /\ store.pc = "done"
    /\ store.resource = "keywords"
    /\ store.how = "ok"
    /\ DOMAIN store.value = StoreUsers
    /\ store.loaded = store.value

\* The events of list are events of batch, in the order batch has them.
InOrderOf(list, batch) ==
    \E at \in [1..Len(list) -> 1..Len(batch)] :
        /\ \A n \in 1..Len(list) : batch[at[n]] = list[n]
        /\ \A m, n \in 1..Len(list) : m < n => at[m] < at[n]

\* C24: the new events of a tick are in the order of the fetched list, and
\* within a tick every send_message is for the event of the one before it, to
\* a later user of the snapshot, or for a later event: all deliveries of an
\* event are attempted before any delivery of the next.
C24_ApiOrder ==
    [][/\ IsTickStep => InOrderOf(new_events', last_batch')
       /\ (pc = "sending" /\ pc' = "sending")
             => \/ ev_idx' > ev_idx
                \/ ev_idx' = ev_idx /\ usr_idx' > usr_idx
       /\ pc' = "sending" => new_events' # <<>> /\ ev_idx' \in 1..Len(new_events')
       /\ pc = "sending" => new_events' = new_events
      ]_vars

\* User 2 has been sent both events of a tick and is being sent the second.
C24_Witness ==
    /\ pc = "sending"
    /\ Len(new_events) = 2
    /\ ev_idx = 2
    /\ AttemptUser = 2
    /\ <<2, EventId(new_events[1])>> \in sent
    /\ <<1, EventId(new_events[1])>> \in sent
    /\ EventId(new_events[1]) # EventId(new_events[2])

\* The request for the market list failed: a status other than 200, a timeout
\* or a network error.
FetchFailed(r) == r.kind \in {"timeout", "network"} \/ (r.kind = "status" /\ r.status # 200)

\* C25: a tick whose fetch failed works on the empty list: it leaves the seen
\* set and its file as they were and sends nothing; an initialisation whose
\* fetch failed adds no id to the seen set and sends nothing.
C25_FailedFetchIsEmpty ==
    [][(pc \in {"start", "sleep"} /\ FetchFailed(fetched'))
          => /\ last_batch' = <<>>
             /\ seen_events' = seen_events
             /\ pc = "sleep" => seen_file' = seen_file
             /\ pc' \in {"sleep"}
             /\ sent' = {}
      ]_vars

\* A tick met a 500 whose body listed an event that was not seen.
C25_Witness ==
    /\ last_fetch = "tick"
    /\ fetched.kind = "status"
    /\ fetched.status = 500
    /\ fetched.is_list
    /\ \E k \in 1..Len(fetched.events) : EventId(fetched.events[k]) \notin seen_events
    /\ pc = "sleep"

\* The events the loop of the tick (lines 815-832) appended to new_events,
\* whether or not the loop went on to its end.
ClassifiedNew == TickLoop(last_batch', 1, seen_events, <<>>).new

\* C26: every event a tick classified as new is offered, within the tick, to
\* every subscriber who is not paused and whose keywords it matches: a tick
\* that goes to sleep without a delivery had no such event and subscriber, and
\* when the fan-out of a tick ends a send_message was made for each of them.
C26_AllDelivered ==
    [][/\ (IsTickStep /\ pc' = "sleep")
             => \A k \in 1..Len(ClassifiedNew), u \in subscribed_users :
                    ~Eligible(u, ClassifiedNew[k])
       /\ (pc = "sending" /\ pc' = "sleep")
             => \A n \in 1..Len(new_events), u \in subscribed_users :
                    Eligible(u, new_events[n])
                       => <<u, EventId(new_events[n])>> \in sent
      ]_vars

\* C27 as stated: no notification of an event is delivered to a user more
\* than once, whatever ticks and restarts there are.
C27_AsStated == notified.twice = {}

\* C27: as long as no write of seen_events.json has failed, no notification of
\* an event is delivered to a user more than once, whatever ticks and restarts
\* there are.
C27_AtMostOnce == ~notified.lost => notified.twice = {}

\* After a restart that followed deliveries, with no failed write, a tick has
\* fetched both events again.
C27_Witness ==
    /\ ~notified.lost
    /\ notified.restarts = 1
    /\ notified.once = Users \X {"1", "2"} \ {<<1, "2">>}
    /\ pc = "sleep"
    /\ seen_events = {"1", "2"}

\* C28: at the end of every steady-state tick step, each event the tick
\* classified as newly discovered and whose id it added to the seen set is in
\* the new_events list the fan-out of that tick is given, also when the tick
\* was cut short by an exception on a later event of the batch.
C28_NewIsOffered ==
    [][IsTickStep
          => \A k \in 1..Len(ClassifiedNew) :
                EventId(ClassifiedNew[k]) \in seen_events' \ seen_events
                   => \E n \in 1..Len(new_events') :
                         new_events'[n] = ClassifiedNew[k]
      ]_vars

\* The users of the snapshot the fan-out is iterating (line 847).
Recipients == {snapshot[j] : j \in 1..Len(snapshot)}

\* The step begins the fan-out of an event: it ends at a send_message of an
\* event other than the one the task was suspended in.
BeginsEvent == Attempted /\ (pc = "sleep" \/ ev_idx' # ev_idx)

\* C29: the recipients of an event are the users subscribed when its fan-out
\* began: the snapshot taken then lists each subscribed user once and stays
\* as it is until the next event, whatever /start is handled meanwhile; a
\* user who subscribes during the fan-out of an event is not sent that event
\* and is in the snapshot of each later event of the tick, where his turn
\* passes without a send_message only if he is paused or his keywords do not
\* match; and every send_message goes to a subscribed user.
C29_PerEventSnapshot ==
    [][/\ BeginsEvent
             => /\ Recipients' = subscribed_users
                /\ Len(snapshot') = Cardinality(subscribed_users)
       /\ (pc = "sending" /\ pc' = "sending" /\ ev_idx' = ev_idx)
             => snapshot' = snapshot
       /\ (pc = "sending" /\ Mutates(subscribed_users))
             => \A u \in subscribed_users' \ subscribed_users :
                   /\ u \notin Recipients'
                   /\ <<u, AttemptEvent'>> \notin sent'
       /\ pc' = "sending"
             => \A p \in sent' : p[2] = AttemptEvent' => p[1] \in Recipients'
       /\ \A q \in PassedOver : ~Eligible(q[2], new_events'[q[1]])
       /\ Attempted => AttemptUser' \in subscribed_users'
      ]_vars

\* The first of two new events is being sent to user 1, the only subscriber
\* when its fan-out began; user 2 has subscribed since.
C29_Witness ==
    /\ pc = "sending"
    /\ Len(new_events) = 2
    /\ ev_idx = 1
    /\ snapshot = <<1>>
    /\ subscribed_users = {1, 2}
    /\ 2 \notin paused_users
    /\ 2 \notin DOMAIN user_keywords

\* The step is one of the polling task: its position or its lists change.
IsPollerStep ==
    <<pc, new_events, ev_idx, snapshot, usr_idx>>'
        # <<pc, new_events, ev_idx, snapshot, usr_idx>>

\* The step is one of a command handler: a collection of the registry or one
\* of its files changes.
IsCommandStep == Mutates(registry) \/ Mutates(registryFiles)

\* C30: a step that subscribes a user or writes users.json (/start) adds at
\* most that user to the subscribed set and leaves the paused set and the
\* keyword mapping, and their files, as they were; no step takes a user out of
\* the subscribed set; no step of a command handler changes the seen set or
\* its file; and no step of the polling task (initialisation, tick, fan-out)
\* changes the subscribed set, the paused set or the keyword mapping.
C30_StateOwnership ==
    [][/\ (Mutates(subscribed_users) \/ Mutates(users_file))
             => /\ Cardinality(subscribed_users' \ subscribed_users) <= 1
                /\ UNCHANGED <<paused_users, user_keywords, paused_file,
                               keywords_file>>
       /\ subscribed_users \subseteq subscribed_users'
       /\ IsCommandStep => UNCHANGED <<seen_events, seen_file>>
       /\ (IsPollerStep \/ Mutates(seen_events) \/ Mutates(seen_file))
             => UNCHANGED <<registry, registryFiles>>
      ]_vars

\* While the second event of a tick is being sent, user 2, who is paused and
\* has keywords, is subscribed and still paused, with the keywords.
C30_Witness ==
    /\ pc = "sending"
    /\ ev_idx = 2
    /\ subscribed_users = {1, 2}
    /\ snapshot = <<1>>
    /\ paused_users = {2}
    /\ DOMAIN user_keywords = {2}
    /\ seen_events # {}

====
